---- MODULE Spec2Model ----
(***************************************************************************)
(* Model of the chunked summarization pipeline of lesson_summarizer:       *)
(* chunking.chunk_text and core.summarize_long_text_to_markdown, with the  *)
(* text-completion collaborator (llm.gemini_client.generate_text) as the   *)
(* environment.                                                            *)
(*                                                                         *)
(* Strings are sequences of atoms.  An atom is one character ("a", " ",    *)
(* "\n", a digit) or a fixed literal of the source that the code never     *)
(* splits (the word "Parte").  Whitespace and markup characters are single *)
(* atoms, so str.strip(), str.startswith() and the regular expressions are *)
(* modelled exactly on them.                                               *)
(*                                                                         *)
(* Four specifications share the variables: Spec (chunker and pipeline),   *)
(* SpecInline (md_inline_to_rl), SpecRender (markdown_to_pdf_bytes) and    *)
(* SpecUI (the generate action of the Streamlit page).  Each leaves the    *)
(* variables of the other components at their idle values.                 *)
(***************************************************************************)
EXTENDS Integers, Sequences, FiniteSets, TLC

\* ---------------------------------------------------------------- bounds
\* longest small input text
MaxLen == 4
\* largest chunk_size / overlap argument tried
MaxChunk == 4

\* the end-to-end example of the specification (section 8)
Example == [len |-> 25000, chunk_size |-> 10000, overlap |-> 500]

\* ------------------------------------------------------- string helpers
\* Python None passed for a str argument (never a character)
NoneText == <<"None">>

\* characters of the small input texts
Alphabet == {"a", "b", " "}

\* str.isspace() on one character
IsSpace(c) == c \in {" ", "\n", "\t"}

\* `x or ""`
OrEmpty(s) == IF s = NoneText THEN <<>> ELSE s

\* str.strip()
Strip(s) ==
  LET n == Len(s)
  IN  IF \A k \in 1..n : IsSpace(s[k]) THEN <<>>
      ELSE LET lo == CHOOSE k \in 1..n :
                       ~IsSpace(s[k]) /\ \A j \in 1..(k-1) : IsSpace(s[j])
               hi == CHOOSE k \in 1..n :
                       ~IsSpace(s[n + 1 - k]) /\ \A j \in (n + 2 - k)..n : IsSpace(s[j])
           IN  SubSeq(s, lo, n + 1 - hi)

Min(a, b) == IF a < b THEN a ELSE b

\* Python slice s[lo:hi] for 0 <= lo, clipped at len(s)
Slice(s, lo, hi) == SubSeq(s, lo + 1, Min(hi, Len(s)))

\* mutant of Ceil: floor plus one, an extra window when d divides n
CeilOffByOne(n, d) == (n \div d) + 1

\* math.ceil(n / d) for n >= 0, d > 0
Ceil(n, d) == (n + d - 1) \div d

Digits == <<"0", "1", "2", "3", "4", "5", "6", "7", "8", "9">>

RECURSIVE IntToStr(_)
\* str(k) of a non-negative integer, as the f-string formats it
IntToStr(k) ==
  IF k < 10 THEN <<Digits[k + 1]>>
  ELSE Append(IntToStr(k \div 10), Digits[(k % 10) + 1])

RECURSIVE Join(_, _)
\* sep.join(parts)
Join(sep, ps) ==
  IF ps = <<>> THEN <<>>
  ELSE IF Len(ps) = 1 THEN ps[1]
  ELSE ps[1] \o sep \o Join(sep, Tail(ps))

\* ---------------------------------------------------------- chunk_text
RECURSIVE PartitionLoop(_, _, _, _, _, _)
\* the for loop of the overlap == 0 branch
PartitionLoop(text, chunk_size, left, bottom, top, parts) ==
  IF left = 0 THEN parts
  ELSE PartitionLoop(text, chunk_size, left - 1, bottom + chunk_size,
                     top + chunk_size, Append(parts, Slice(text, bottom, top)))

\* mutant of Step: the window advances by its full width
StepIgnoringOverlap(chunk_size, overlap) == chunk_size

\* chunk_size - overlap
Step(chunk_size, overlap) == chunk_size - overlap

RECURSIVE SlidingLoop(_, _, _, _, _, _)
\* the while loop of the overlap > 0 branch
SlidingLoop(text, n, chunk_size, step, start, parts) ==
  IF ~(start < n) THEN parts
  ELSE LET end == Min(start + chunk_size, n)
       IN  SlidingLoop(text, n, chunk_size, step, start + step,
                       Append(parts, Slice(text, start, end)))

\* mutant of ConfigError: the check of a negative overlap is missing
ConfigErrorNoNegativeCheck(chunk_size, overlap) ==
  IF chunk_size <= 0 THEN "chunk_size must be > 0"
  ELSE IF overlap >= chunk_size THEN "overlap must be < chunk_size"
  ELSE "none"

\* the argument checks of chunk_text: the message of the ValueError raised
ConfigError(chunk_size, overlap) ==
  IF chunk_size <= 0 THEN "chunk_size must be > 0"
  ELSE IF overlap < 0 THEN "overlap must be >= 0"
  ELSE IF overlap >= chunk_size THEN "overlap must be < chunk_size"
  ELSE "none"

\* chunk_text(text, chunk_size=..., overlap=...): the raised message or the list
chunk_text(text0, chunk_size, overlap) ==
  LET text == OrEmpty(text0)
      n    == Len(text)
  IN  IF ConfigError(chunk_size, overlap) # "none"
        THEN [err |-> ConfigError(chunk_size, overlap), parts |-> <<>>]
      ELSE IF n = 0 THEN [err |-> "none", parts |-> <<>>]
      ELSE IF overlap = 0
        THEN [err |-> "none",
              parts |-> PartitionLoop(text, chunk_size, Ceil(n, chunk_size),
                                      0, chunk_size, <<>>)]
      ELSE [err |-> "none",
            parts |-> SlidingLoop(text, n, chunk_size,
                                  Step(chunk_size, overlap), 0, <<>>)]

\* ------------------------------------------------------------- prompts
\* mutant of Directive: index and total swapped
DirectiveSwapped(i, total) ==
  <<"IMPORTANTE: Esta es la parte ">> \o IntToStr(total) \o <<"/">>
    \o IntToStr(i)
    \o <<". ", "Mantene la salida breve y estructurada (max ~1-2 paginas).">>

\* the directive appended to the caller's output instructions for chunk i
Directive(i, total) ==
  <<"IMPORTANTE: Esta es la parte ">> \o IntToStr(i) \o <<"/">>
    \o IntToStr(total)
    \o <<". ", "Mantene la salida breve y estructurada (max ~1-2 paginas).">>

\* per_chunk_output_custom of iteration i
PerChunkOutputCustom(output_custom0, i, total) ==
  LET base == Strip(OrEmpty(output_custom0))
  IN  (IF base # <<>> THEN base \o <<"\n">> ELSE base)
        \o <<"\n">> \o Directive(i, total)

\* out_txt of build_prompt: the custom text wins whenever it is non-blank
OutTxt(output_custom0) ==
  LET t == Strip(OrEmpty(output_custom0))
  IN  IF t # <<>> THEN t
      ELSE <<"Genera un apunte detallado, estructurado, sin redundancias.">>

\* full_prompt of summarize_text_to_markdown: the parts that vary per call
\* (language, topic and role are passed through unchanged)
FullPrompt(t, output_custom0) == [out_txt |-> OutTxt(output_custom0), text |-> t]

\* ------------------------------------------------------------ sections
\* "## Parte {i}/{total}"
Heading(i, total) ==
  <<"#", "#", " ", "Parte", " ">> \o IntToStr(i) \o <<"/">> \o IntToStr(total)

\* "\n\n---\n\n"
Separator == <<"\n", "\n", "-", "-", "-", "\n", "\n">>

\* generate_text's return value for the SDK response text resp
GenerateTextResult(resp) == Strip(OrEmpty(resp))

\* md_i: summarize_text_to_markdown strips generate_text's result again
ChunkMarkdown(resp) == Strip(GenerateTextResult(resp))

\* mutant of Section: the section is not stripped
SectionNoStrip(i, total, md_i) == Heading(i, total) \o <<"\n", "\n">> \o md_i

\* f"## Parte {i}/{total}\n\n{md_i}".strip()
Section(i, total, md_i) == Strip(Heading(i, total) \o <<"\n", "\n">> \o md_i)

\* "\n\n---\n\n".join(parts).strip()
JoinParts(ps) == Strip(Join(Separator, ps))

\* mutant of StrippedInput: the text is not stripped
StrippedInputNoStrip(text0) == OrEmpty(text0)

\* text = (text or "").strip()
StrippedInput(text0) == Strip(OrEmpty(text0))

\* ---------------------------------------------------------------- state
VARIABLES
  op,                \* the entry point called: "chunk_text" or "summarize"
  text,              \* argument text
  chunk_size_chars,  \* argument chunk_size / chunk_size_chars
  overlap_chars,     \* argument overlap / overlap_chars
  output_custom,     \* argument output_custom
  pc,                \* "start", "loop", "calling", "done", "error"
  chunked,           \* chunk_text has been invoked
  chunks,            \* the list chunk_text returned
  i,                 \* loop index (1-based, as enumerate(start=1))
  parts,             \* sections collected so far
  calls,             \* prompts handed to generate_text, in call order
  responses,         \* SDK response texts received, in order
  inflight,          \* completion calls started and not yet ended
  result,            \* value returned by summarize_long_text_to_markdown
  err                \* message of the exception raised, "none" if none

VARIABLES
  s_in,              \* md_inline_to_rl: the argument s
  rl_out,            \* md_inline_to_rl: the markup returned
  ipc                \* "idle", "start", "done"

VARIABLES
  md,                \* markdown_to_pdf_bytes: the argument md
  lines,             \* the preprocessed lines
  idx,               \* number of lines the main loop has processed
  pending_bullets,   \* the pending bullet items
  story,             \* the flowables appended so far
  rpc                \* "idle", "start", "lines", "done"

VARIABLES
  input_type,        \* ui.input_type
  input_text,        \* st.session_state.input_text
  youtube_url,       \* st.session_state.youtube_url
  uploaded_audio,    \* st.session_state.uploaded_audio
  title,             \* ui.title
  last_run,          \* st.session_state.last_run
  shown,             \* the message of the last generate: st.success / st.error
  run_seq            \* number of run ids drawn so far

pipeline_vars ==
  <<op, text, chunk_size_chars, overlap_chars, output_custom, pc, chunked,
    chunks, i, parts, calls, responses, inflight, result, err>>

inline_vars == <<s_in, rl_out, ipc>>

render_vars == <<md, lines, idx, pending_bullets, story, rpc>>

ui_vars == <<input_type, input_text, youtube_url, uploaded_audio, title,
             last_run, shown, run_seq>>

vars == <<pipeline_vars, inline_vars, render_vars, ui_vars>>

\* st.session_state has no "last_run" key
NoLastRun == [run_id |-> 0, markdown |-> <<>>, pdf_bytes |-> <<>>, title |-> <<>>]

\* md_inline_to_rl is not being called
InlineIdle == s_in = <<>> /\ rl_out = <<>> /\ ipc = "idle"

\* markdown_to_pdf_bytes is not being called
RenderIdle ==
  /\ md = <<>> /\ lines = <<>> /\ idx = 0 /\ pending_bullets = <<>>
  /\ story = <<>> /\ rpc = "idle"

\* no page is open
UiIdle ==
  /\ input_type = "text" /\ input_text = <<>> /\ youtube_url = <<>>
  /\ uploaded_audio = FALSE /\ title = <<>> /\ last_run = NoLastRun
  /\ shown = "none" /\ run_seq = 0

\* nothing has been returned
NotReturned == <<"<not returned>">>

RECURSIVE SeqsUpTo(_, _)
\* all sequences over S of length <= n
SeqsUpTo(S, n) ==
  IF n = 0 THEN {<<>>}
  ELSE LET shorter == SeqsUpTo(S, n - 1)
       IN  shorter \cup {Append(s, c) : s \in {x \in shorter : Len(x) = n - 1}, c \in S}

\* the small input texts, and a missing text
SmallTexts == SeqsUpTo(Alphabet, MaxLen) \cup {NoneText}

\* the 25,000 character text of the end-to-end example
ExampleText == SubSeq([k \in 1..Example.len |-> "a"], 1, Example.len)

\* values of output_custom tried
OutputCustoms == {NoneText, <<" ", "o", " ">>}

\* SDK response texts the completion collaborator may produce
Responses == {NoneText, <<" ", "r", "\n">>, <<"s">>}

Inputs ==
  [op : {"chunk_text", "summarize"}, text : SmallTexts,
   chunk_size : -1..MaxChunk, overlap : -1..MaxChunk, output_custom : {NoneText}]
  \cup
  [op : {"summarize"}, text : SmallTexts,
   chunk_size : 1..MaxChunk, overlap : 0..MaxChunk, output_custom : OutputCustoms]
  \cup
  {[op |-> "summarize", text |-> ExampleText, chunk_size |-> Example.chunk_size,
    overlap |-> Example.overlap, output_custom |-> NoneText]}

Init ==
  \E inp \in Inputs :
    /\ op = inp.op
    /\ text = inp.text
    /\ chunk_size_chars = inp.chunk_size
    /\ overlap_chars = inp.overlap
    /\ output_custom = inp.output_custom
    /\ pc = "start"
    /\ chunked = FALSE
    /\ chunks = <<>>
    /\ i = 0
    /\ parts = <<>>
    /\ calls = <<>>
    /\ responses = <<>>
    /\ inflight = 0
    /\ result = NotReturned
    /\ err = "none"
    /\ InlineIdle /\ RenderIdle /\ UiIdle

others == <<inline_vars, render_vars, ui_vars>>

inputs == <<op, text, chunk_size_chars, overlap_chars, output_custom>>

\* a direct call of chunk_text(text, chunk_size=..., overlap=...)
ChunkTextCall ==
  /\ op = "chunk_text" /\ pc = "start"
  /\ LET r == chunk_text(text, chunk_size_chars, overlap_chars)
     IN  /\ chunked' = TRUE
         /\ err' = r.err
         /\ chunks' = r.parts
         /\ pc' = IF r.err = "none" THEN "done" ELSE "error"
  /\ UNCHANGED <<inputs, i, parts, calls, responses, inflight, result, others>>

\* summarize_long_text_to_markdown up to the loop: strip, emptiness check,
\* chunk_text, empty-list check
SummarizeBegin ==
  /\ op = "summarize" /\ pc = "start"
  /\ LET t == StrippedInput(text)
         r == chunk_text(t, chunk_size_chars, overlap_chars)
     IN  IF t = <<>>
           THEN /\ pc' = "error" /\ err' = "Input text is empty."
                /\ UNCHANGED <<chunked, chunks, i, result>>
         ELSE IF r.err # "none"
           THEN /\ pc' = "error" /\ err' = r.err /\ chunked' = TRUE
                /\ UNCHANGED <<chunks, i, result>>
         ELSE IF r.parts = <<>>
           THEN /\ pc' = "done" /\ result' = <<>> /\ chunked' = TRUE
                /\ UNCHANGED <<chunks, i, err>>
         ELSE /\ pc' = "loop" /\ chunks' = r.parts /\ i' = 1 /\ chunked' = TRUE
              /\ UNCHANGED <<result, err>>
  /\ UNCHANGED <<inputs, parts, calls, responses, inflight, others>>

\* one loop iteration up to the completion call: summarize_text_to_markdown
\* strips the chunk, rejects a blank one, builds the prompt, calls generate_text
IssueCall ==
  /\ pc = "loop"
  /\ LET total == Len(chunks)
         per   == PerChunkOutputCustom(output_custom, i, total)
         t     == Strip(OrEmpty(chunks[i]))
     IN  IF t = <<>>
           THEN /\ pc' = "error" /\ err' = "Input text is empty."
                /\ UNCHANGED <<calls, inflight>>
         ELSE /\ calls' = Append(calls, FullPrompt(t, per))
              /\ inflight' = inflight + 1
              /\ pc' = "calling"
              /\ UNCHANGED err
  /\ UNCHANGED <<inputs, chunked, chunks, i, parts, responses, result, others>>

\* the sections after the completion of chunk i returned resp
PartsAfter(resp) ==
  Append(parts, Section(i, Len(chunks), ChunkMarkdown(resp)))

\* the index of the chunk processed after chunk i succeeded
NextIndex == i + 1

\* generate_text returns: the section is appended; after the last chunk the
\* sections are joined and returned
CompletionReturns ==
  /\ pc = "calling"
  /\ \E resp \in Responses :
       /\ responses' = Append(responses, resp)
       /\ parts' = PartsAfter(resp)
       /\ inflight' = inflight - 1
       /\ IF i = Len(chunks)
            THEN /\ result' = JoinParts(parts') /\ pc' = "done" /\ UNCHANGED i
            ELSE /\ i' = NextIndex /\ pc' = "loop" /\ UNCHANGED result
  /\ UNCHANGED <<inputs, chunked, chunks, calls, err, others>>

\* mutant of OnCompletionFailure: the sections collected so far are returned
OnCompletionFailureReturnsPartial ==
  /\ pc' = "done" /\ err' = "CompletionFailure"
  /\ result' = JoinParts(parts)
  /\ inflight' = inflight - 1
  /\ UNCHANGED <<i, parts, calls>>

\* what the loop does when generate_text raises: the exception is not caught
OnCompletionFailure ==
  /\ pc' = "error" /\ err' = "CompletionFailure"
  /\ inflight' = inflight - 1
  /\ UNCHANGED <<i, parts, calls, result>>

\* generate_text raises (transport, quota, auth ...)
CompletionFails ==
  /\ pc = "calling"
  /\ OnCompletionFailure
  /\ UNCHANGED <<inputs, chunked, chunks, responses, others>>

Next ==
  \/ ChunkTextCall
  \/ SummarizeBegin
  \/ IssueCall
  \/ CompletionReturns
  \/ CompletionFails

Spec == Init /\ [][Next]_vars

\* ======================================================== the claims
\* chunk_size > 0 and 0 <= overlap < chunk_size
ValidConfig == chunk_size_chars > 0 /\ overlap_chars >= 0
               /\ overlap_chars < chunk_size_chars

\* the messages of the ValueError chunk_text raises (InvalidArgument)
InvalidArgumentMessages ==
  {"chunk_size must be > 0", "overlap must be >= 0", "overlap must be < chunk_size"}

\* the text the chunker was given: the argument itself in a direct call,
\* the trimmed argument inside the pipeline
ChunkInput == IF op = "chunk_text" THEN OrEmpty(text) ELSE Strip(OrEmpty(text))

\* chunk_text was called and returned a list (held in chunks)
ChunkListReturned == chunked /\ err \notin InvalidArgumentMessages

\* s without its first k characters (all of it gone when it is shorter)
DropFirst(s, k) == SubSeq(s, k + 1, Len(s))

RECURSIVE Concat(_)
Concat(ss) == IF ss = <<>> THEN <<>> ELSE ss[1] \o Concat(Tail(ss))

\* the chunks in index order, the first `overlap` characters of every chunk
\* but the first dropped, concatenated
Rebuilt ==
  Concat([k \in 1..Len(chunks) |->
            IF k = 1 THEN chunks[k] ELSE DropFirst(chunks[k], overlap_chars)])

\* C1: whenever chunk_text returns a list (valid configuration, any text),
\* concatenating the chunks in index order, less the first `overlap`
\* characters of every chunk after the first, gives back exactly the text.
C1_Reconstruction == ChunkListReturned => Rebuilt = ChunkInput

\* C1 witness: an overlapping split into three or more chunks whose last
\* chunk is shorter than the overlap, over a text of distinct characters
C1_Witness ==
  /\ ChunkListReturned /\ overlap_chars > 0 /\ Len(chunks) >= 3
  /\ Len(chunks[Len(chunks)]) < overlap_chars
  /\ \E k \in 1..(Len(ChunkInput) - 1) : ChunkInput[k] # ChunkInput[k + 1]

\* C5: with chunk_size <= 0, overlap < 0 or overlap >= chunk_size a call of
\* chunk_text ends in the ValueError (InvalidArgument) and returns no list,
\* for every text, the empty and the missing one included.
C5_InvalidConfigRaises ==
  (op = "chunk_text" /\ pc # "start" /\ ~ValidConfig)
    => (pc = "error" /\ err \in InvalidArgumentMessages /\ chunks = <<>>)

\* C5 witness: a missing or empty text with overlap >= chunk_size > 0, raised
C5_Witness ==
  /\ op = "chunk_text" /\ pc = "error" /\ text \in {NoneText, <<>>}
  /\ chunk_size_chars > 0 /\ overlap_chars >= chunk_size_chars

\* C6: under a valid configuration chunk_text returns the empty list, and no
\* error, for the empty string; for a non-empty text it returns at least one
\* chunk and every chunk has between 1 and chunk_size characters.
C6_EmptyAndNonEmpty ==
  (chunked /\ ValidConfig) =>
     /\ err \notin InvalidArgumentMessages
     /\ (ChunkInput = <<>> => (pc = "done" /\ err = "none" /\ chunks = <<>>))
     /\ (ChunkInput # <<>> =>
           /\ Len(chunks) >= 1
           /\ \A k \in 1..Len(chunks) :
                Len(chunks[k]) >= 1 /\ Len(chunks[k]) <= chunk_size_chars)

\* C6 witness: the empty string chunked with an overlapping configuration
C6_Witness ==
  /\ op = "chunk_text" /\ text = <<>> /\ ValidConfig /\ overlap_chars > 0
  /\ pc = "done"

\* the start offsets 0, step, 2*step, ... below len(text), in order
WindowStarts ==
  LET step == chunk_size_chars - overlap_chars
      n    == Len(ChunkInput)
  IN  [k \in 1..((n + step - 1) \div step) |-> (k - 1) * step]

\* characters window k has in common with window k+1 (by offsets)
SharedWithNext(k) ==
  LET endk == Min(WindowStarts[k] + chunk_size_chars, Len(ChunkInput))
  IN  IF endk > WindowStarts[k + 1] THEN endk - WindowStarts[k + 1] ELSE 0

\* the windows are those of the start offsets, each clipped at the end of text
WindowsAtStarts ==
  /\ Len(chunks) = Len(WindowStarts)
  /\ \A k \in 1..Len(chunks) :
       chunks[k] = SubSeq(ChunkInput, WindowStarts[k] + 1,
                          Min(WindowStarts[k] + chunk_size_chars, Len(ChunkInput)))

\* C4 (as claimed): for overlap > 0 the windows are those of the start
\* offsets 0, step, 2*step, ... < len(text), every window but the last has
\* exactly chunk_size characters, and every adjacent pair but the one ending
\* with the last window shares exactly `overlap` characters.
C4_SlidingWindows ==
  (ChunkListReturned /\ overlap_chars > 0) =>
     /\ WindowsAtStarts
     /\ \A k \in 1..(Len(chunks) - 1) : Len(chunks[k]) = chunk_size_chars
     /\ \A k \in 1..(Len(chunks) - 2) : SharedWithNext(k) = overlap_chars

\* number of places where sub occurs in s
Count(s, sub) ==
  Cardinality({k \in 0..(Len(s) - Len(sub)) : SubSeq(s, k + 1, k + Len(sub)) = sub})

\* sub occurs in s
Contains(s, sub) == \E k \in 0..(Len(s) - Len(sub)) : SubSeq(s, k + 1, k + Len(sub)) = sub

\* s begins with pre
StartsWith(s, pre) == Len(s) >= Len(pre) /\ SubSeq(s, 1, Len(pre)) = pre

\* C2 (as claimed): a run over a non-blank text whose trimmed length is below
\* chunk_size_chars, with any valid overlap, that returns has produced exactly
\* one chunk, made exactly one completion call, and returns one section,
\* headed part 1/1.
C2_ShortTextOneChunk ==
  (op = "summarize" /\ pc = "done" /\ ValidConfig
     /\ Len(ChunkInput) < chunk_size_chars) =>
     /\ Len(chunks) = 1
     /\ Len(calls) = 1
     /\ StartsWith(result, Heading(1, 1))
     /\ Count(result, Separator) = 0

\* the run of the end-to-end example
IsExampleRun ==
  /\ op = "summarize" /\ Len(OrEmpty(text)) = Example.len
  /\ chunk_size_chars = Example.chunk_size /\ overlap_chars = Example.overlap

\* the result is total sections, headed part 1/total .. total/total in that
\* order, with the separator between every two of them and nowhere else
SectionsInOrder(total) ==
  /\ Count(result, Separator) = total - 1
  /\ \A k \in 1..total : Count(result, Heading(k, total)) = 1
  /\ StartsWith(result, Heading(1, total))
  /\ \A k \in 2..total : Count(result, Separator \o Heading(k, total)) = 1
  /\ \A k \in 1..(total - 1) :
       (CHOOSE p \in 0..Len(result) :
          SubSeq(result, p + 1, p + Len(Heading(k, total))) = Heading(k, total))
       < (CHOOSE p \in 0..Len(result) :
          SubSeq(result, p + 1, p + Len(Heading(k + 1, total))) = Heading(k + 1, total))

\* the sizes of the chunks, in order
ChunkSizes == [k \in 1..Len(chunks) |-> Len(chunks[k])]

\* C3 (as claimed): the 25,000 character text with chunk_size_chars=10000 and
\* overlap_chars=500 gives 3 chunks of sizes 10000, 10000, 5000 and a
\* document of 3 sections part 1/3, 2/3, 3/3 joined by the separator.
C3_ExampleAsClaimed ==
  (IsExampleRun /\ pc = "done") =>
     (ChunkSizes = <<10000, 10000, 5000>> /\ SectionsInOrder(3))

\* C3 (amended): the same, the sizes being 10000, 10000 and 6000: the third
\* window starts at 2 * (10000 - 500) = 19000 and runs to 25000.
C3_Example ==
  (IsExampleRun /\ pc = "done") =>
     (ChunkSizes = <<10000, 10000, 6000>> /\ SectionsInOrder(3))

\* C3 witness: the example run has returned its document
C3_Witness == IsExampleRun /\ pc = "done" /\ result # NotReturned /\ Len(calls) = 3

\* the words that tell a completion call it works on part k of total
PartDirective(k, total) ==
  <<"IMPORTANTE: Esta es la parte ">> \o IntToStr(k) \o <<"/">>
    \o IntToStr(total) \o <<". ">>

\* C7 (as claimed): the collaborator is called once per chunk, in chunk index
\* order, never with two calls in flight, a call starting only after the one
\* before it has returned; call k carries the text of chunk k and an
\* instruction block containing the directive for part k/total.
C7_CallsAsClaimed ==
  op = "summarize" =>
     /\ inflight \in {0, 1}
     /\ Len(calls) <= Len(chunks)
     /\ Len(calls) - Len(responses) \in {0, 1}
     /\ (inflight = 1 => Len(calls) = Len(responses) + 1)
     /\ (pc = "done" => Len(calls) = Len(chunks))
     /\ \A k \in 1..Len(calls) :
          /\ calls[k].text = chunks[k]
          /\ Contains(calls[k].out_txt, PartDirective(k, Len(chunks)))

\* C7 (amended): as claimed, except that call k carries the trimmed text of
\* chunk k (the chunk with its leading and trailing whitespace removed), and
\* that a call has been made for every chunk once the run has returned.
C7_SequentialCalls ==
  op = "summarize" =>
     /\ inflight \in {0, 1}
     /\ Len(calls) <= Len(chunks)
     /\ Len(calls) - Len(responses) \in {0, 1}
     /\ (inflight = 1 => Len(calls) = Len(responses) + 1)
     /\ (pc = "done" => Len(calls) = Len(chunks))
     /\ \A k \in 1..Len(calls) :
          /\ calls[k].text = Strip(chunks[k])
          /\ Contains(calls[k].out_txt, PartDirective(k, Len(chunks)))

\* C7 witness: a returned run over three or more chunks, one of them with
\* whitespace at an end, with caller-supplied output instructions
C7_Witness ==
  /\ op = "summarize" /\ pc = "done" /\ Len(chunks) >= 3
  /\ Len(calls) = Len(chunks) /\ output_custom # NoneText
  /\ \E k \in 1..Len(chunks) : chunks[k] # Strip(chunks[k])

\* C8: once the collaborator has failed on chunk k the run has ended in the
\* error: the failed call is the last call ever made (call k, so chunk k is
\* not retried and no later chunk is called), nothing is in flight and no
\* Markdown has been returned.
C8_FailureAborts ==
  err = "CompletionFailure" =>
     /\ pc = "error"
     /\ result = NotReturned
     /\ inflight = 0
     /\ Len(calls) = i
     /\ Len(responses) = i - 1
     /\ Len(parts) = i - 1

\* C8 witness: the failure hit a chunk after the first and before the last
C8_Witness ==
  /\ err = "CompletionFailure" /\ pc = "error"
  /\ Len(parts) >= 1 /\ i < Len(chunks)

\* C9: a run over an empty, missing or whitespace-only text ends in the
\* EmptyInput error with chunk_text never invoked and no completion call made,
\* for every chunk_size_chars and overlap_chars, the invalid ones included.
C9_BlankInputRejected ==
  (op = "summarize" /\ pc # "start" /\ Strip(OrEmpty(text)) = <<>>) =>
     /\ pc = "error" /\ err = "Input text is empty."
     /\ ~chunked /\ chunks = <<>> /\ calls = <<>> /\ result = NotReturned

\* C9 witness: a whitespace-only text rejected under an invalid configuration
C9_Witness ==
  /\ op = "summarize" /\ pc = "error" /\ Len(OrEmpty(text)) >= 2
  /\ Strip(OrEmpty(text)) = <<>> /\ ~ValidConfig

\* section k of the document as the claim describes it: the heading of part
\* k/total, then (after a blank line) the trimmed result of completion k
ExpectedSection(k, total) ==
  LET body == Strip(OrEmpty(responses[k]))
  IN  Heading(k, total) \o (IF body = <<>> THEN <<>> ELSE <<"\n", "\n">> \o body)

\* s neither begins nor ends with whitespace
NoOuterWhitespace(s) == s = <<>> \/ (~IsSpace(s[1]) /\ ~IsSpace(s[Len(s)]))

\* C10: the Markdown returned is the sections of the chunks in chunk order,
\* section k being the heading of part k/total followed by the trimmed
\* completion result of chunk k, with exactly one separator between every two
\* adjacent sections, and has no leading or trailing whitespace.
C10_Document ==
  (op = "summarize" /\ pc = "done") =>
     /\ Len(responses) = Len(chunks)
     /\ result = Join(Separator,
                      [k \in 1..Len(chunks) |-> ExpectedSection(k, Len(chunks))])
     /\ Count(result, Separator) = Len(chunks) - 1
     /\ NoOuterWhitespace(result)

\* C10 witness: a document of two or more sections, one completion result
\* blank and one padded with whitespace
C10_Witness ==
  /\ op = "summarize" /\ pc = "done" /\ Len(chunks) >= 2
  /\ \E k \in 1..Len(responses) : Strip(OrEmpty(responses[k])) = <<>>
  /\ \E k \in 1..Len(responses) :
       /\ OrEmpty(responses[k]) # Strip(OrEmpty(responses[k]))
       /\ Strip(OrEmpty(responses[k])) # <<>>

\* C16 (as claimed): a run over a text that is non-blank after trimming,
\* under a valid chunk configuration, ends in no error other than a failure
\* of the completion collaborator (EmptyInput is never raised for it, not even
\* for a chunk that holds only whitespace); when it returns, the document is
\* non-empty and has one section per chunk, so the empty-list return is not
\* taken.
C16_NonBlankSucceeds ==
  (op = "summarize" /\ Strip(OrEmpty(text)) # <<>> /\ ValidConfig) =>
     /\ err \in {"none", "CompletionFailure"}
     /\ (pc = "done" =>
           /\ Len(chunks) >= 1
           /\ Len(parts) = Len(chunks)
           /\ result # <<>>)

\* ====================================================== md_inline_to_rl
\* longest small argument of md_inline_to_rl
MaxInline == 5

\* the backtick character (an atom of its own: it cannot be written in a string)
Backtick == "backtick"

RECURSIVE Replace(_, _, _)
\* str.replace(old, new): every occurrence, leftmost first, not overlapping
Replace(s, old, new) ==
  IF Len(s) < Len(old) THEN s
  ELSE IF SubSeq(s, 1, Len(old)) = old
    THEN new \o Replace(SubSeq(s, Len(old) + 1, Len(s)), old, new)
  ELSE <<s[1]>> \o Replace(Tail(s), old, new)

\* mutant of esc: "<" and ">" are replaced before "&"
escAmpersandLast(s) ==
  Replace(Replace(Replace(s, <<"<">>, <<"&", "lt;">>), <<">">>, <<"&", "gt;">>),
          <<"&">>, <<"&", "amp;">>)

\* esc: s.replace("&", "&amp;").replace("<", "&lt;").replace(">", "&gt;")
esc(s) ==
  Replace(Replace(Replace(s, <<"&">>, <<"&", "amp;">>), <<"<">>, <<"&", "lt;">>),
          <<">">>, <<"&", "gt;">>)

\* the first position q >= from with s[q] = c, 0 when there is none
NextAt(s, c, from) ==
  IF \E q \in from..Len(s) : s[q] = c
    THEN CHOOSE q \in from..Len(s) : s[q] = c /\ \A j \in from..(q - 1) : s[j] # c
    ELSE 0

\* f"@@CODE{k}@@"
Placeholder(k) == <<"@@CODE">> \o IntToStr(k) \o <<"@@">>

RECURSIVE CodeSub(_, _, _, _)
\* re.sub(r"`([^`]+)`", _code_repl, s), scanning from position p: the text
\* with placeholders and the code spans collected
CodeSub(s, p, out, code_spans) ==
  IF p > Len(s) THEN [s |-> out, code_spans |-> code_spans]
  ELSE LET q == NextAt(s, Backtick, p + 1)
       IN  IF s[p] = Backtick /\ q > p + 1
             THEN CodeSub(s, q + 1, out \o Placeholder(Len(code_spans)),
                          Append(code_spans, SubSeq(s, p + 1, q - 1)))
             ELSE CodeSub(s, p + 1, Append(out, s[p]), code_spans)

RECURSIVE BoldSub(_, _, _)
\* re.sub(r"\*\*([^*]+)\*\*", r"<b>\1</b>", s), scanning from position p
BoldSub(s, p, out) ==
  IF p > Len(s) THEN out
  ELSE LET q == NextAt(s, "*", p + 2)
       IN  IF /\ p + 1 <= Len(s) /\ s[p] = "*" /\ s[p + 1] = "*"
              /\ q > p + 2 /\ q + 1 <= Len(s) /\ s[q + 1] = "*"
             THEN BoldSub(s, q + 2,
                          out \o <<"<", "b", ">">> \o SubSeq(s, p + 2, q - 1)
                              \o <<"<", "/", "b", ">">>)
             ELSE BoldSub(s, p + 1, Append(out, s[p]))

RECURSIVE ItalicSub(_, _, _)
\* re.sub(r"(?<!\*)\*([^*]+)\*(?!\*)", r"<i>\1</i>", s), scanning from p
ItalicSub(s, p, out) ==
  IF p > Len(s) THEN out
  ELSE LET q == NextAt(s, "*", p + 1)
       IN  IF /\ s[p] = "*" /\ (p = 1 \/ s[p - 1] # "*")
              /\ q > p + 1 /\ (q = Len(s) \/ s[q + 1] # "*")
             THEN ItalicSub(s, q + 1,
                            out \o <<"<", "i", ">">> \o SubSeq(s, p + 1, q - 1)
                                \o <<"<", "/", "i", ">">>)
             ELSE ItalicSub(s, p + 1, Append(out, s[p]))

\* the opening font tag of a code span, face Courier
FontOpen == <<"<", "font face=\"Courier\"", ">">>

\* the closing font tag
FontClose == <<"<", "/", "font", ">">>

RECURSIVE RestoreCode(_, _, _)
\* the loop that puts the code spans k, k+1, ... back in place of their placeholders
RestoreCode(s, code_spans, k) ==
  IF k >= Len(code_spans) THEN s
  ELSE RestoreCode(Replace(s, Placeholder(k),
                           FontOpen \o code_spans[k + 1] \o FontClose),
                   code_spans, k + 1)

\* mutant of md_inline_to_rl: the code spans are extracted after bold and italic
md_inline_to_rl_CodeLast(s) ==
  LET it   == ItalicSub(BoldSub(esc(s), 1, <<>>), 1, <<>>)
      code == CodeSub(it, 1, <<>>, <<>>)
  IN  RestoreCode(code.s, code.code_spans, 0)

\* md_inline_to_rl(s)
md_inline_to_rl(s) ==
  LET code == CodeSub(esc(s), 1, <<>>, <<>>)
      bold == BoldSub(code.s, 1, <<>>)
      it   == ItalicSub(bold, 1, <<>>)
  IN  RestoreCode(it, code.code_spans, 0)

\* characters of the small arguments of md_inline_to_rl
InlineAlphabet == {"a", "*", Backtick, "<", ">", "&"}

\* the line of the bold/italic precedence example:
\* **bold** and *italic* and `code *not italic*`
InlineExample ==
  <<"*", "*", "bold", "*", "*", " ", "and", " ", "*", "italic", "*", " ", "and",
    " ", Backtick, "code", " ", "*", "not", " ", "italic", "*", Backtick>>

\* the arguments md_inline_to_rl is called with
InlineInputs == SeqsUpTo(InlineAlphabet, MaxInline) \cup {InlineExample}

\* the pipeline is not running
PipelineIdle ==
  /\ op = "none" /\ text = <<>> /\ chunk_size_chars = 0 /\ overlap_chars = 0
  /\ output_custom = NoneText /\ pc = "idle" /\ chunked = FALSE /\ chunks = <<>>
  /\ i = 0 /\ parts = <<>> /\ calls = <<>> /\ responses = <<>> /\ inflight = 0
  /\ result = NotReturned /\ err = "none"

InitInline ==
  /\ s_in \in InlineInputs /\ rl_out = <<>> /\ ipc = "start"
  /\ PipelineIdle /\ RenderIdle /\ UiIdle

\* a call of md_inline_to_rl(s_in)
InlineCall ==
  /\ ipc = "start"
  /\ rl_out' = md_inline_to_rl(s_in)
  /\ ipc' = "done"
  /\ UNCHANGED <<s_in, pipeline_vars, render_vars, ui_vars>>

NextInline == InlineCall

SpecInline == InitInline /\ [][NextInline]_vars

\* --------------------------------------------------- claims C12 and C13
\* the tags the formatter inserts
FormatterTags ==
  {<<"<", "b", ">">>, <<"<", "/", "b", ">">>, <<"<", "i", ">">>,
   <<"<", "/", "i", ">">>, FontOpen, FontClose}

\* a formatter tag begins at position p of s
TagStartsAt(s, p) ==
  \E t \in FormatterTags : p + Len(t) - 1 <= Len(s) /\ SubSeq(s, p, p + Len(t) - 1) = t

\* a formatter tag ends at position p of s
TagEndsAt(s, p) ==
  \E t \in FormatterTags : p - Len(t) + 1 >= 1 /\ SubSeq(s, p - Len(t) + 1, p) = t

\* number of times the character c occurs in s
Occurrences(s, c) == Cardinality({p \in 1..Len(s) : s[p] = c})

\* C12: in the markup returned for any line, every "<" begins and every ">"
\* ends a tag the formatter inserted, every "&" begins one of the escapes
\* &amp; &lt; &gt;, and the escapes are exactly those of the "<", ">" and "&"
\* of the line (none of them lost, no inserted tag escaped), inside code
\* spans as well as outside.
C12_OnlyEscapedMarkup ==
  ipc = "done" =>
     /\ \A p \in 1..Len(rl_out) :
          /\ (rl_out[p] = "<" => TagStartsAt(rl_out, p))
          /\ (rl_out[p] = ">" => TagEndsAt(rl_out, p))
          /\ (rl_out[p] = "&" =>
                p < Len(rl_out) /\ rl_out[p + 1] \in {"amp;", "lt;", "gt;"})
     /\ Count(rl_out, <<"&", "lt;">>) = Occurrences(s_in, "<")
     /\ Count(rl_out, <<"&", "gt;">>) = Occurrences(s_in, ">")
     /\ Count(rl_out, <<"&", "amp;">>) = Occurrences(s_in, "&")

\* C12 witness: a code span holding "<" and "&" next to a ">" outside it
C12_Witness ==
  /\ ipc = "done" /\ s_in = <<Backtick, "<", "&", Backtick, ">">>
  /\ Contains(rl_out, FontOpen)

\* the escaped form of one character of a line
EscapedChar(c) ==
  IF c = "&" THEN <<"&", "amp;">>
  ELSE IF c = "<" THEN <<"&", "lt;">>
  ELSE IF c = ">" THEN <<"&", "gt;">>
  ELSE <<c>>

\* the escaped form of a text, character by character
Escaped(x) == Concat([k \in 1..Len(x) |-> EscapedChar(x[k])])

\* x is non-empty and holds none of the characters of cs
PlainOf(x, cs) == x # <<>> /\ \A k \in 1..Len(x) : x[k] \notin cs

\* s without its first and last n characters
Inner(s, n) == SubSeq(s, n + 1, Len(s) - n)

\* what the precedence example renders to: bold "bold", italic "italic" and
\* the code span in fixed width with its asterisks
InlineExampleMarkup ==
  <<"<", "b", ">", "bold", "<", "/", "b", ">", " ", "and", " ",
    "<", "i", ">", "italic", "<", "/", "i", ">", " ", "and", " ">>
  \o FontOpen \o <<"code", " ", "*", "not", " ", "italic", "*">> \o FontClose

MaxLines == 3

\* the characters U+2022 (bullet), U+2013 (en dash) and U+2014 (em dash)
BulletGlyph == "U+2022"
EnDash == "U+2013"
EmDash == "U+2014"

\* str.rstrip()
RStrip(s) ==
  IF \A k \in 1..Len(s) : IsSpace(s[k]) THEN <<>>
  ELSE SubSeq(s, 1, CHOOSE k \in 1..Len(s) :
                      ~IsSpace(s[k]) /\ \A j \in (k + 1)..Len(s) : IsSpace(s[j]))

RECURSIVE SplitLines(_)
\* str.splitlines() (line breaks are "\n")
SplitLines(s) ==
  IF s = <<>> THEN <<>>
  ELSE LET q == NextAt(s, "\n", 1)
       IN  IF q = 0 THEN <<s>>
           ELSE <<SubSeq(s, 1, q - 1)>> \o SplitLines(SubSeq(s, q + 1, Len(s)))

\* one pass of the preprocessing loop: rstrip, then the three glyph replacements
PreprocessLine(ln) ==
  Replace(Replace(Replace(RStrip(ln), <<BulletGlyph, " ">>, <<"-", " ">>),
                  <<EnDash, " ">>, <<"-", " ">>),
          <<EmDash, " ">>, <<"-", " ">>)

\* lines: the document stripped, split, each line preprocessed
Preprocess(md0) ==
  LET raw_lines == SplitLines(Strip(OrEmpty(md0)))
  IN  [k \in 1..Len(raw_lines) |-> PreprocessLine(raw_lines[k])]

\* Spacer(1, h)
Spacer(h) == [kind |-> "Spacer", level |-> h, items |-> <<>>]

\* Paragraph(text, style): level 0 is the body style, k the heading style hk
Paragraph(txt, level) == [kind |-> "Paragraph", level |-> level, items |-> <<txt>>]

\* ListFlowable([ListItem(Paragraph(md_inline_to_rl(item), body)) ...])
ListFlowable(its) ==
  [kind |-> "ListFlowable", level |-> 0,
   items |-> [k \in 1..Len(its) |-> md_inline_to_rl(its[k])]]

\* mutant of flush_bullets: the pending items are not cleared
flush_bullets_KeepsPending(story0, pending) ==
  IF pending = <<>> THEN [story |-> story0, pending_bullets |-> pending]
  ELSE [story |-> story0 \o <<ListFlowable(pending), Spacer(8)>>,
        pending_bullets |-> pending]

\* flush_bullets(): the story and the pending items after it
flush_bullets(story0, pending) ==
  IF pending = <<>> THEN [story |-> story0, pending_bullets |-> pending]
  ELSE [story |-> story0 \o <<ListFlowable(pending), Spacer(8)>>,
        pending_bullets |-> <<>>]

\* k "#" characters and a space
HashPrefix(k) == [j \in 1..(k + 1) |-> IF j <= k THEN "#" ELSE " "]

\* mutant of HeadingLevel: only the three levels of the docstring
HeadingLevelUpTo3(line) ==
  IF \E k \in 1..3 : StartsWith(line, HashPrefix(k))
    THEN CHOOSE k \in 1..3 : StartsWith(line, HashPrefix(k))
    ELSE 0

\* the level of the startswith chain "# " .. "###### " that matches, 0 if none
HeadingLevel(line) ==
  IF \E k \in 1..6 : StartsWith(line, HashPrefix(k))
    THEN CHOOSE k \in 1..6 : StartsWith(line, HashPrefix(k))
    ELSE 0

\* the body of the main loop for one line: the story and pending items after it
LineStep(story0, pending, raw) ==
  LET line    == Strip(raw)
      flushed == flush_bullets(story0, pending)
  IN  IF line = <<>>
        THEN [story |-> Append(flushed.story, Spacer(10)),
              pending_bullets |-> flushed.pending_bullets]
      ELSE IF line = <<"-", "-", "-">>
        THEN [story |-> Append(flushed.story, Spacer(14)),
              pending_bullets |-> flushed.pending_bullets]
      ELSE IF StartsWith(line, <<"-", " ">>) \/ StartsWith(line, <<"*", " ">>)
        THEN [story |-> story0,
              pending_bullets |-> Append(pending, Strip(SubSeq(line, 3, Len(line))))]
      ELSE IF HeadingLevel(line) > 0
        THEN [story |-> Append(flushed.story,
                               Paragraph(md_inline_to_rl(
                                           SubSeq(line, HeadingLevel(line) + 2, Len(line))),
                                         HeadingLevel(line))),
              pending_bullets |-> flushed.pending_bullets]
      ELSE [story |-> Append(flushed.story, Paragraph(md_inline_to_rl(line), 0)),
            pending_bullets |-> flushed.pending_bullets]

RECURSIVE RenderLoop(_, _, _, _)
\* the main loop from line k on, and the final flush: the finished story
RenderLoop(ls, k, story0, pending) ==
  IF k > Len(ls) THEN flush_bullets(story0, pending).story
  ELSE LET st == LineStep(story0, pending, ls[k])
       IN  RenderLoop(ls, k + 1, st.story, st.pending_bullets)

\* markdown_to_pdf_bytes(md, title=...): the document built, by its title and story
markdown_to_pdf_bytes(md0, title0) ==
  [title |-> title0, story |-> RenderLoop(Preprocess(md0), 1, <<>>, <<>>)]

\* the lines small documents are made of
LineChoices ==
  {<<>>, <<"-", "-", "-">>, <<"-", " ", "a">>, <<"*", " ", "b">>,
   <<" ", "-", " ", "c">>, <<BulletGlyph, " ", "d", " ">>,
   <<"#", " ", "T">>, <<"#", "#", " ", "Title">>,
   <<"#", "#", "#", "#", "#", "#", " ", "T">>,
   <<"#", "#", "#", "#", "#", "#", "#", " ", "T">>,
   <<"#", "T">>, <<"plain", " ", "text">>}

\* the document of the renderer example:
\* "## Title", blank, "- a", "- b", blank, "plain text"
RenderExample ==
  Join(<<"\n">>, << <<"#", "#", " ", "Title">>, <<>>, <<"-", " ", "a">>,
                    <<"-", " ", "b">>, <<>>, <<"plain", " ", "text">> >>)

\* the documents of up to MaxLines lines, and a missing document
SmallDocuments ==
  {Join(<<"\n">>, ls) : ls \in SeqsUpTo(LineChoices, MaxLines)} \cup {NoneText}

InitRender ==
  /\ md \in SmallDocuments \cup {RenderExample}
  /\ lines = <<>> /\ idx = 0 /\ pending_bullets = <<>> /\ story = <<>>
  /\ rpc = "start"
  /\ PipelineIdle /\ InlineIdle /\ UiIdle

\* markdown_to_pdf_bytes up to the main loop
RenderBegin ==
  /\ rpc = "start"
  /\ lines' = Preprocess(md)
  /\ rpc' = "lines"
  /\ UNCHANGED <<md, idx, pending_bullets, story, pipeline_vars, inline_vars, ui_vars>>

\* one iteration of the main loop
RenderLine ==
  /\ rpc = "lines" /\ idx < Len(lines)
  /\ LET st == LineStep(story, pending_bullets, lines[idx + 1])
     IN  story' = st.story /\ pending_bullets' = st.pending_bullets
  /\ idx' = idx + 1
  /\ UNCHANGED <<md, lines, rpc, pipeline_vars, inline_vars, ui_vars>>

\* after the loop: the final flush_bullets(), then doc.build(story) succeeds
RenderEnd ==
  /\ rpc = "lines" /\ idx = Len(lines)
  /\ LET f == flush_bullets(story, pending_bullets)
     IN  story' = f.story /\ pending_bullets' = f.pending_bullets
  /\ rpc' = "done"
  /\ UNCHANGED <<md, lines, idx, pipeline_vars, inline_vars, ui_vars>>

\* after the loop: the final flush_bullets(), then doc.build(story) raises
RenderBuildFails ==
  /\ rpc = "lines" /\ idx = Len(lines)
  /\ LET f == flush_bullets(story, pending_bullets)
     IN  story' = f.story /\ pending_bullets' = f.pending_bullets
  /\ rpc' = "error"
  /\ UNCHANGED <<md, lines, idx, pipeline_vars, inline_vars, ui_vars>>

NextRender ==
  \/ RenderBegin
  \/ RenderLine
  \/ RenderEnd
  \/ RenderBuildFails

SpecRender == InitRender /\ [][NextRender]_vars

\* ------------------------------------------------------------ claim C11
\* a line that starts with "- " or "* "
StartsWithBullet(l) == StartsWith(l, <<"-", " ">>) \/ StartsWith(l, <<"*", " ">>)

\* the rendered item of a bullet line: what follows the two-character prefix
ItemOf(l) == md_inline_to_rl(Strip(SubSeq(l, 3, Len(l))))

RECURSIVE ExpectedOutline(_, _)
\* The outline a sequence of lines should give: one entry per block, in line
\* order; a maximal run of bullet lines gives one entry holding its items, any
\* other line gives an entry without items. run holds the items of the run
\* the walk is in.
ExpectedOutline(ls, run) ==
  IF ls = <<>> THEN (IF run = <<>> THEN <<>> ELSE <<run>>)
  ELSE IF StartsWithBullet(ls[1])
    THEN ExpectedOutline(Tail(ls), Append(run, ItemOf(ls[1])))
  ELSE (IF run = <<>> THEN <<>> ELSE <<run>>) \o << <<>> >>
         \o ExpectedOutline(Tail(ls), <<>>)

\* the block is the gap that flush_bullets puts after a list
IsListGap(b) == b.kind = "Spacer" /\ b.level = 8

\* the outline of the story built so far, the pending items being the run
\* that is still open
Outline ==
  LET blocks == SelectSeq(story, LAMBDA b : ~IsListGap(b))
  IN  [k \in 1..Len(blocks) |->
         IF blocks[k].kind = "ListFlowable" THEN blocks[k].items ELSE <<>>]
        \o (IF pending_bullets = <<>> THEN <<>>
            ELSE << [k \in 1..Len(pending_bullets) |->
                       md_inline_to_rl(pending_bullets[k])] >>)

\* the lines with the whitespace on both sides removed
StrippedLines(ls) == [k \in 1..Len(ls) |-> Strip(ls[k])]

\* the blocks of the story other than gaps
NonGapBlocks == SelectSeq(story, LAMBDA b : b.kind # "Spacer")

\* what the renderer example should give
RenderExampleBlocks ==
  << [kind |-> "Paragraph", level |-> 2, items |-> << <<"Title">> >>],
     [kind |-> "ListFlowable", level |-> 0, items |-> << <<"a">>, <<"b">> >>],
     [kind |-> "Paragraph", level |-> 0, items |-> << <<"plain", " ", "text">> >>] >>

\* the parts of C11 that do not depend on what a bullet line is: no empty list,
\* nothing pending once the input is consumed, and the example
C11_FlushAndExample ==
  /\ \A k \in 1..Len(story) :
       story[k].kind = "ListFlowable" => story[k].items # <<>>
  /\ rpc \in {"done", "error"} => pending_bullets = <<>>
  /\ (rpc = "done" /\ md = RenderExample) => NonGapBlocks = RenderExampleBlocks

\* C11 as stated: blocks come in line order and every maximal run of lines
\* that start with "- " or "* " is exactly one list with one item per line.
\* Violated: the line " - c" does not start with "- " but joins the list.
C11_AsClaimed ==
  rpc \in {"lines", "done", "error"} =>
    /\ Outline = ExpectedOutline(SubSeq(lines, 1, idx), <<>>)
    /\ C11_FlushAndExample

\* C11 amended: blocks come in line order and every maximal run of lines that,
\* with the whitespace on both sides removed, start with "- " or "* " is
\* exactly one list with one item per line in line order; the pending items
\* are flushed at every other line and at the end of the input, so no item is
\* dropped, duplicated or moved, and no list is empty; the example gives a
\* level-2 heading, a list of two items and the paragraph "plain text".
C11_BulletRuns ==
  rpc \in {"lines", "done", "error"} =>
    /\ Outline = ExpectedOutline(StrippedLines(SubSeq(lines, 1, idx)), <<>>)
    /\ C11_FlushAndExample

\* a finished rendering with a list of two lines, one of them indented, after
\* an earlier block
C11_Witness ==
  /\ rpc = "done"
  /\ \E k \in 1..Len(lines) : lines[k] # Strip(lines[k])
  /\ \E k \in 2..Len(story) :
       story[k].kind = "ListFlowable" /\ Len(story[k].items) = 2

\* ------------------------------------------------------------ claim C14
\* The class the rules give a line, first match first: blank, "---", bullet,
\* heading of level k with the prefix removed, paragraph.
ClassOf(l) ==
  IF l = <<>> THEN [class |-> "blank", level |-> 0, text |-> <<>>]
  ELSE IF l = <<"-", "-", "-">> THEN [class |-> "break", level |-> 0, text |-> <<>>]
  ELSE IF StartsWithBullet(l) THEN [class |-> "bullet", level |-> 0, text |-> ItemOf(l)]
  ELSE IF \E k \in 1..6 : StartsWith(l, HashPrefix(k))
    THEN LET k == CHOOSE j \in 1..6 : StartsWith(l, HashPrefix(j))
         IN  [class |-> "heading", level |-> k,
              text |-> md_inline_to_rl(SubSeq(l, k + 2, Len(l)))]
  ELSE [class |-> "paragraph", level |-> 0, text |-> md_inline_to_rl(l)]

\* the classes a block of the story stands for: one per line that made it
ClassesOfBlock(b) ==
  IF b.kind = "Spacer"
    THEN (IF b.level = 10 THEN <<[class |-> "blank", level |-> 0, text |-> <<>>]>>
          ELSE IF b.level = 14 THEN <<[class |-> "break", level |-> 0, text |-> <<>>]>>
          ELSE <<>>)
  ELSE IF b.kind = "ListFlowable"
    THEN [k \in 1..Len(b.items) |->
            [class |-> "bullet", level |-> 0, text |-> b.items[k]]]
  ELSE IF b.level > 0
    THEN <<[class |-> "heading", level |-> b.level, text |-> b.items[1]]>>
  ELSE <<[class |-> "paragraph", level |-> 0, text |-> b.items[1]]>>

\* the classes of the lines consumed so far, read off the story and the
\* pending items
Classified ==
  Concat([k \in 1..Len(story) |-> ClassesOfBlock(story[k])])
    \o [k \in 1..Len(pending_bullets) |->
          [class |-> "bullet", level |-> 0,
           text |-> md_inline_to_rl(pending_bullets[k])]]

\* C14 as stated: each line, after glyph normalization and trailing-whitespace
\* stripping, is classified by the first matching rule. Violated: the line
\* " - c" is a paragraph by these rules and a bullet item in the renderer.
C14_AsClaimed ==
  rpc \in {"lines", "done", "error"} =>
    Classified = [k \in 1..idx |-> ClassOf(lines[k])]

\* C14 amended: each line, after glyph normalization and stripping of the
\* whitespace on both sides, falls in exactly one class, that of the first
\* matching rule: blank, "---", bullet item, heading of level exactly k for
\* 1 to 6 "#" and a space with the prefix removed, paragraph otherwise
\* (seven "#", or "#" without a space, included).
C14_Classification ==
  rpc \in {"lines", "done", "error"} =>
    Classified = [k \in 1..idx |-> ClassOf(Strip(lines[k]))]

\* a finished rendering of a level-6 heading, an indented line and a line of
\* seven "#"
C14_Witness ==
  /\ rpc = "done"
  /\ \E k \in 1..Len(lines) : StartsWith(lines[k], HashPrefix(7))
  /\ \E k \in 1..Len(lines) : StartsWith(lines[k], HashPrefix(6))
  /\ \E k \in 1..Len(lines) : lines[k] # Strip(lines[k])

\* ======================================================= the generate action
\* most runs of the generate action in one session
MaxRuns == 3

\* a collaborator call that raises instead of returning a text
Raises == <<"raises">>

RECURSIVE SummarizeLoop(_, _, _, _)
\* the loop of summarize_long_text_to_markdown from chunk k on, completions[k]
\* being what generate_text does on call k: the document or the message raised
SummarizeLoop(cs, k, ps, completions) ==
  IF k > Len(cs) THEN [error |-> "none", markdown |-> JoinParts(ps)]
  ELSE IF Strip(OrEmpty(cs[k])) = <<>>
    THEN [error |-> "Input text is empty.", markdown |-> <<>>]
  ELSE IF completions[k] = Raises
    THEN [error |-> "CompletionFailure", markdown |-> <<>>]
  ELSE SummarizeLoop(cs, k + 1,
                     Append(ps, Section(k, Len(cs), ChunkMarkdown(completions[k]))),
                     completions)

\* the chunks the generate action has summarized: chunk_size_chars=10_000,
\* overlap_chars=500
UiChunks(text0) ==
  chunk_text(StrippedInput(text0), Example.chunk_size, Example.overlap).parts

\* summarize_long_text_to_markdown(text=..., chunk_size_chars=10_000,
\* overlap_chars=500) as the generate action calls it
summarize_long_text_to_markdown(text0, completions) ==
  IF StrippedInput(text0) = <<>>
    THEN [error |-> "Input text is empty.", markdown |-> <<>>]
  ELSE IF UiChunks(text0) = <<>> THEN [error |-> "none", markdown |-> <<>>]
  ELSE SummarizeLoop(UiChunks(text0), 1, <<>>, completions)

\* input resolution: the text to summarize or the message raised; fetched is
\* what get_youtube_text or transcribe_audio_file does
ResolveInput(fetched) ==
  IF input_type = "text" THEN [error |-> "none", text |-> input_text]
  ELSE IF input_type = "youtube"
    THEN (IF Strip(OrEmpty(youtube_url)) = <<>>
            THEN [error |-> "Falta URL de YouTube.", text |-> <<>>]
          ELSE IF fetched = Raises THEN [error |-> "TranscriptError", text |-> <<>>]
          ELSE [error |-> "none", text |-> fetched])
  ELSE IF input_type = "audio"
    THEN (IF ~uploaded_audio
            THEN [error |-> "Falta subir un archivo de audio/video.", text |-> <<>>]
          ELSE IF fetched = Raises THEN [error |-> "TranscriptError", text |-> <<>>]
          ELSE [error |-> "none", text |-> fetched])
  ELSE [error |-> "Input type no soportado", text |-> <<>>]

\* ui.title or "Resumen"
PdfTitle(t) == IF t = <<>> THEN <<"Resumen">> ELSE t

\* the message the try block ends with: that of the first step that raised,
\* or "Listo" when none did
GenerateMessage(resolved, summary, build_ok) ==
  IF resolved.error # "none" THEN resolved.error
  ELSE IF summary.error # "none" THEN summary.error
  ELSE IF ~build_ok THEN "BuildError"
  ELSE "Listo"

\* mutant of LastRunAfter: the result is stored before the PDF is built
LastRunAfterStoresBeforePdf(resolved, summary, build_ok, id) ==
  IF resolved.error # "none" \/ summary.error # "none" THEN last_run
  ELSE [run_id |-> id, markdown |-> summary.markdown,
        pdf_bytes |-> IF build_ok
                        THEN markdown_to_pdf_bytes(summary.markdown, PdfTitle(title))
                        ELSE <<>>,
        title |-> title]

\* st.session_state.last_run after the try block
LastRunAfter(resolved, summary, build_ok, id) ==
  IF resolved.error # "none" \/ summary.error # "none" \/ ~build_ok THEN last_run
  ELSE [run_id |-> id, markdown |-> summary.markdown,
        pdf_bytes |-> markdown_to_pdf_bytes(summary.markdown, PdfTitle(title)),
        title |-> title]

\* what the widgets can hold
InputTypes == {"text", "youtube", "audio"}
InputTexts == {<<>>, <<"a">>, <<" ">>}
YoutubeUrls == {<<>>, <<"u">>}
Titles == {<<>>, <<"T">>}

\* what get_youtube_text and transcribe_audio_file can do
Fetches == {Raises, <<"a">>, <<" ">>}

\* what generate_text can do on a call
Completions == {Raises, <<"-", " ", "a">>, <<"s">>}

InitUI ==
  /\ UiIdle
  /\ PipelineIdle /\ InlineIdle /\ RenderIdle

\* a rerun of the script without the button: the widgets take new values
UserEdits ==
  /\ input_type' \in InputTypes
  /\ input_text' \in InputTexts
  /\ youtube_url' \in YoutubeUrls
  /\ uploaded_audio' \in BOOLEAN
  /\ title' \in Titles
  /\ shown' = "none"
  /\ UNCHANGED <<last_run, run_seq, pipeline_vars, inline_vars, render_vars>>

\* the button: the whole try/except block of the generate action
Generate ==
  /\ run_seq < MaxRuns
  /\ run_seq' = run_seq + 1
  /\ \E fetched \in Fetches, build_ok \in BOOLEAN :
       LET resolved == ResolveInput(fetched)
       IN  \E completions \in [1..Len(UiChunks(resolved.text)) -> Completions] :
             LET summary == summarize_long_text_to_markdown(resolved.text, completions)
             IN  /\ input_text' = IF input_type # "text" /\ resolved.error = "none"
                                    THEN resolved.text ELSE input_text
                 /\ last_run' = LastRunAfter(resolved, summary, build_ok, run_seq')
                 /\ shown' = GenerateMessage(resolved, summary, build_ok)
  /\ UNCHANGED <<input_type, youtube_url, uploaded_audio, title,
                 pipeline_vars, inline_vars, render_vars>>

NextUI ==
  \/ UserEdits
  \/ Generate

SpecUI == InitUI /\ [][NextUI]_vars

\* ------------------------------------------------------------ claim C15
\* the messages the generate action shows when a step failed
ErrorMessages ==
  {"Falta URL de YouTube.", "Falta subir un archivo de audio/video.",
   "TranscriptError", "Input type no soportado", "Input text is empty.",
   "CompletionFailure", "BuildError"}

\* the stored result is one whole run: a run id handed out so far, the
\* Markdown of that run and the PDF rendered from that same Markdown
WholeRun(r) ==
  /\ r.run_id \in 1..MaxRuns
  /\ r.markdown # <<>>
  /\ r.pdf_bytes = [title |-> PdfTitle(r.title),
                    story |-> RenderLoop(Preprocess(r.markdown), 1, <<>>, <<>>)]

\* C15: a run of the generate action that shows an error leaves the stored
\* result as it was (absent if it was absent); the stored result changes only
\* in a run that shows success, and then to the run id, Markdown, title and
\* the PDF of that Markdown, all of that run.
C15_StoredOnlyOnSuccess ==
  [][ /\ shown' \in ErrorMessages => last_run' = last_run
      /\ last_run' # last_run =>
           /\ shown' = "Listo"
           /\ run_seq' = run_seq + 1
           /\ last_run'.run_id = run_seq'
           /\ last_run'.title = title
           /\ WholeRun(last_run') ]_vars

\* C15 witness: a run failed at the PDF build after an earlier run had
\* succeeded, and the stored result is still that of the earlier run
C15_Witness ==
  /\ shown = "BuildError"
  /\ last_run # NoLastRun
  /\ last_run.run_id < run_seq

====
